---- MODULE Spec2Model ----
(***************************************************************************)
(* Implicit interval tree (iit) and implicit interval tree with            *)
(* interpolation index (iitii), src/iitii.h.                               *)
(*                                                                         *)
(* Pos is instantiated with int, Item with a pair <<beg, end>>.  An        *)
(* element of a result vector is a pointer to nodes[r].item; it is         *)
(* represented by the rank r.  Ranks are 0-based as in the source, so the  *)
(* node of rank r is nodes[r+1] of the TLA+ sequence (operator At).        *)
(*                                                                         *)
(* Every operator that models code returns, next to its value, the log of  *)
(* what it did: <<"read", r>> for a read of nodes[r], and <<f, r, k>> for  *)
(* a call of the geometry function (or scan) f on rank r with level k.     *)
(* The assertions of the source are predicates over these events.          *)
(***************************************************************************)
EXTENDS Integers, Sequences, FiniteSets, Bags, TLC

\* ---------------------------------------------------------------- bounds
MaxPos == 2        \* Spec: item positions are 0..MaxPos, query positions 0..MaxPos+1
MaxItems == 9      \* most items given to an iit builder (Spec)
MaxItemsII == 6    \* most items given to an iitii builder (Spec)
MaxDomains == 2    \* largest domain count passed to build()
SeqPos == 1        \* SpecSeq: item positions are 0..SeqPos, query positions 0..SeqPos+1
SeqItems == 3      \* most items given to a builder (SpecSeq)
SeqCalls == 3      \* most overlap calls on an index (SpecSeq)
DeepPos == 1       \* SpecDeep: item positions are 0..DeepPos, query positions 0..DeepPos+1
DeepItems == 9     \* most items given to a builder (SpecDeep)

\* ------------------------------------------------------ program constants
PosMax == 2147483647          \* std::numeric_limits<int>::max(), also npos
PosMin == -PosMax - 1         \* std::numeric_limits<int>::min()
nrank == -1                   \* std::numeric_limits<size_t>::max(), size_t(-1)
TRAIN_LEVELS == <<0, 1, 2, 4, 7, 12, 20, 33, 54>>

\* the items and the query positions over the positions 0..m
Item(m) == {it \in (0..m) \X (0..m) : it[1] <= it[2]}
QPos(m) == 0..(m + 1)
\* the level-ranks tried as the prediction of the model: enough to reach every
\* real node of a level and one rank past the last real node
LevelRanks(size) == 0..((size + 1) \div 2)

Max(a, b) == IF a >= b THEN a ELSE b
Min(a, b) == IF a <= b THEN a ELSE b

RECURSIVE Pow2(_)
Pow2(k) == IF k = 0 THEN 1 ELSE 2 * Pow2(k - 1)

\* ------------------------------------------------------------------ nodes
get_beg(item) == item[1]
get_end(item) == item[2]

\* iit_node_base(const Item&)
iit_node_base(item) ==
    [item |-> item, inside_max_end |-> get_end(item)]

\* iitii_node(const Item&)
iitii_node(item) ==
    [item |-> item, inside_max_end |-> get_end(item), outside_max_end |-> PosMin]

beg(n) == get_beg(n.item)
end(n) == get_end(n.item)

\* iit_node_base::operator<
NodeLess(l, r) ==
    IF beg(l) = beg(r) THEN end(l) < end(r) ELSE beg(l) < beg(r)

\* nodes[r].  The value of a slot outside the array is unspecified (OutOfRange
\* stands for it); an event <<"read", r>> with r outside the array records it.
OutOfRange == [item |-> <<0, 0>>, inside_max_end |-> 0, outside_max_end |-> 0]
At(ns, r) == IF r + 1 \in DOMAIN ns THEN ns[r + 1] ELSE OutOfRange

\* --------------------------------------------------------------- geometry
\* level: the number of 1 bits below the lowest 0 bit
RECURSIVE level(_)
level(node) == IF node % 2 = 1 THEN 1 + level(node \div 2) ELSE 0

parent(t, node, k) ==
    IF node = t.root THEN nrank
    ELSE IF (node \div Pow2(k + 1)) % 2 = 1 THEN node - Pow2(k)
    ELSE node + Pow2(k)

parent2(t, node) == parent(t, node, level(node))

left(node, k) == IF k > 0 THEN node - Pow2(k - 1) ELSE nrank

\* right with the offset of the node's own level: 1 << k for 1 << (k-1)
right_own_level(node, k) == IF k > 0 THEN node + Pow2(k) ELSE nrank

right(node, k) == IF k > 0 THEN node + Pow2(k - 1) ELSE nrank

leftmost_leaf(subtree, k) == subtree - (Pow2(k) - 1)

leftmost_leaf2(subtree) == leftmost_leaf(subtree, level(subtree))

rightmost_leaf(subtree, k) == subtree + (Pow2(k) - 1)

\* The assertions the source makes in the function an event names.
EventOK(t, e) ==
    CASE e[1] \in {"read", "prefetch", "outside_min_beg"} -> TRUE
      [] e[1] = "level" -> e[2] >= 0 /\ e[2] < t.full_size
      [] e[1] = "parent" ->
            /\ e[2] >= 0 /\ e[2] < t.full_size
            /\ e[3] = level(e[2])
            /\ (e[2] # t.root => e[2] >= Pow2(e[3]) - 1)
      [] e[1] \in {"left", "right"} ->
            e[2] >= 0 /\ e[2] < t.full_size /\ e[3] = level(e[2])
      [] e[1] = "leftmost_leaf" ->
            /\ e[2] >= 0 /\ e[2] < t.full_size
            /\ e[3] = level(e[2])
            /\ e[2] >= Pow2(e[3]) - 1
      [] e[1] = "rightmost_leaf" ->
            /\ e[2] >= 0 /\ e[2] < t.full_size
            /\ e[3] = level(e[2])
            /\ e[2] + Pow2(e[3]) - 1 < t.full_size
      [] e[1] = "scan" ->
            e[2] >= 0 /\ e[2] < t.full_size /\ e[3] = level(e[2])
      [] OTHER -> e[2]

\* ------------------------------------------------------------------- scan
\* the unrolled loop of scan for k <= 2: r runs from lml up to rml
RECURSIVE scan_leaves(_, _, _, _, _, _, _)

\* scan_leaves taking an item that ends at qbeg: end >= qbeg for end > qbeg
scan_leaves_end_ge(t, r, rml, qbeg, qend, ans, log) ==
    IF r > rml THEN [r |-> r, ans |-> ans, log |-> log]
    ELSE LET n == At(t.nodes, r)
             lg == log \cup {<<"read", r>>}
         IN IF beg(n) >= qend THEN [r |-> r, ans |-> ans, log |-> lg]
            ELSE scan_leaves(t, r + 1, rml, qbeg, qend,
                             IF end(n) >= qbeg THEN Append(ans, r) ELSE ans, lg)

\* scan_leaves going on at an item that begins at qend: beg > qend for beg >= qend
scan_leaves_beg_gt(t, r, rml, qbeg, qend, ans, log) ==
    IF r > rml THEN [r |-> r, ans |-> ans, log |-> log]
    ELSE LET n == At(t.nodes, r)
             lg == log \cup {<<"read", r>>}
         IN IF beg(n) > qend THEN [r |-> r, ans |-> ans, log |-> lg]
            ELSE scan_leaves(t, r + 1, rml, qbeg, qend,
                             IF end(n) > qbeg THEN Append(ans, r) ELSE ans, lg)

scan_leaves(t, r, rml, qbeg, qend, ans, log) ==
    IF r > rml THEN [r |-> r, ans |-> ans, log |-> log]
    ELSE LET n == At(t.nodes, r)
             lg == log \cup {<<"read", r>>}
         IN IF beg(n) >= qend THEN [r |-> r, ans |-> ans, log |-> lg]
            ELSE scan_leaves(t, r + 1, rml, qbeg, qend,
                             IF end(n) > qbeg THEN Append(ans, r) ELSE ans, lg)

\* top-down overlap scan for [qbeg,qend); cost is the number of nodes visited,
\* depth the number of nested recursive calls below this one
RECURSIVE scan(_, _, _, _, _, _)

\* scan whose textbook search takes the node before its left subtree
scan_node_first(t, subtree, k, qbeg, qend, ans) ==
    LET size == Len(t.nodes)
        here == {<<"scan", subtree, k>>, <<"level", subtree, level(subtree)>>}
    IN IF subtree >= size THEN
           IF k > 0
           THEN LET s == scan(t, left(subtree, k), k - 1, qbeg, qend, ans)
                IN [ans |-> s.ans, cost |-> 1 + s.cost, depth |-> 1 + s.depth,
                    log |-> here \cup {<<"left", subtree, k>>} \cup s.log]
           ELSE [ans |-> ans, cost |-> 1, depth |-> 0, log |-> here]
       ELSE IF k <= 2 THEN
           LET lml == leftmost_leaf(subtree, k)
               rml == Min(rightmost_leaf(subtree, k), size - 1)
               s == scan_leaves(t, lml, rml, qbeg, qend, ans, {})
           IN [ans |-> s.ans, cost |-> s.r - lml, depth |-> 0,
               log |-> here \cup {<<"leftmost_leaf", subtree, k>>,
                                  <<"rightmost_leaf", subtree, k>>} \cup s.log]
       ELSE
           LET n == At(t.nodes, subtree)
               lg == here \cup {<<"read", subtree>>}
           IN IF n.inside_max_end > qbeg THEN
                  LET ck == k - 1
                      a == IF beg(n) < qend /\ end(n) > qbeg
                           THEN Append(ans, subtree) ELSE ans
                      l == scan(t, left(subtree, k), ck, qbeg, qend, a)
                      llg == lg \cup {<<"left", subtree, k>>} \cup l.log
                  IN IF beg(n) < qend THEN
                         LET r == scan(t, right(subtree, k), ck, qbeg, qend, l.ans)
                         IN [ans |-> r.ans, cost |-> 1 + l.cost + r.cost,
                             depth |-> 1 + Max(l.depth, r.depth),
                             log |-> llg \cup {<<"right", subtree, k>>} \cup r.log]
                     ELSE [ans |-> l.ans, cost |-> 1 + l.cost,
                           depth |-> 1 + l.depth, log |-> llg]
              ELSE [ans |-> ans, cost |-> 1, depth |-> 0, log |-> lg]

scan(t, subtree, k, qbeg, qend, ans) ==
    LET size == Len(t.nodes)
        here == {<<"scan", subtree, k>>, <<"level", subtree, level(subtree)>>}
    IN IF subtree >= size THEN
           IF k > 0
           THEN LET s == scan(t, left(subtree, k), k - 1, qbeg, qend, ans)
                IN [ans |-> s.ans, cost |-> 1 + s.cost, depth |-> 1 + s.depth,
                    log |-> here \cup {<<"left", subtree, k>>} \cup s.log]
           ELSE [ans |-> ans, cost |-> 1, depth |-> 0, log |-> here]
       ELSE IF k <= 2 THEN
           LET lml == leftmost_leaf(subtree, k)
               rml == Min(rightmost_leaf(subtree, k), size - 1)
               s == scan_leaves(t, lml, rml, qbeg, qend, ans, {})
           IN [ans |-> s.ans, cost |-> s.r - lml, depth |-> 0,
               log |-> here \cup {<<"leftmost_leaf", subtree, k>>,
                                  <<"rightmost_leaf", subtree, k>>} \cup s.log]
       ELSE
           LET n == At(t.nodes, subtree)
               lg == here \cup {<<"read", subtree>>}
           IN IF n.inside_max_end > qbeg THEN
                  LET ck == k - 1
                      l == scan(t, left(subtree, k), ck, qbeg, qend, ans)
                      llg == lg \cup {<<"left", subtree, k>>} \cup l.log
                  IN IF beg(n) < qend THEN
                         LET a == IF end(n) > qbeg THEN Append(l.ans, subtree)
                                  ELSE l.ans
                             r == scan(t, right(subtree, k), ck, qbeg, qend, a)
                         IN [ans |-> r.ans, cost |-> 1 + l.cost + r.cost,
                             depth |-> 1 + Max(l.depth, r.depth),
                             log |-> llg \cup {<<"right", subtree, k>>} \cup r.log]
                     ELSE [ans |-> l.ans, cost |-> 1 + l.cost,
                           depth |-> 1 + l.depth, log |-> llg]
              ELSE [ans |-> ans, cost |-> 1, depth |-> 0, log |-> lg]

\* ------------------------------------------------- iit_base construction
\* the loop that computes the implied tree geometry: <<root_level, full_size>>
RECURSIVE tree_geometry(_, _, _)

\* tree_geometry that keeps the one-slot tree of level 0 for a single node
tree_geometry_one_slot(rl, fs, size) ==
    IF fs < size /\ size > 1 THEN tree_geometry(rl + 1, Pow2(rl + 2) - 1, size)
    ELSE <<rl, Max(fs, 1)>>

tree_geometry(rl, fs, size) ==
    IF fs < size THEN tree_geometry(rl + 1, Pow2(rl + 2) - 1, size)
    ELSE <<rl, fs>>

\* the path from the rightmost real leaf up to the root
RECURSIVE right_border(_, _)
right_border(t, path) ==
    IF path[Len(path)] = t.root THEN path
    ELSE right_border(t, Append(path, parent2(t, path[Len(path)])))

\* the events of the calls parent2 makes along the border
border_log(path) ==
    UNION {{<<"level", path[i], level(path[i])>>,
            <<"parent", path[i], level(path[i])>>} : i \in 1..(Len(path) - 1)}

\* index_node that leaves an imaginary right child out instead of taking the
\* last border observation
index_node_no_border(st, border, n, k) ==
    LET ns == st.nodes
        size == Len(ns)
        e0 == end(At(ns, n))
        e1 == Max(e0, At(ns, left(n, k)).inside_max_end)
        real == right(n, k) < size
        ime == IF real THEN Max(e1, At(ns, right(n, k)).inside_max_end) ELSE e1
    IN [nodes |-> [ns EXCEPT ![n + 1].inside_max_end = ime],
        ime |-> IF n = border[k + 1] THEN ime ELSE st.ime,
        log |-> st.log \cup {<<"read", n>>, <<"left", n, k>>, <<"read", left(n, k)>>,
                             <<"right", n, k>>, <<"assert ime != npos", ime # PosMax>>}
                       \cup (IF real THEN {<<"read", right(n, k)>>} ELSE {})]

\* bottom-up indexing, one node n of level k; st = [nodes, ime, log]
index_node(st, border, n, k) ==
    LET ns == st.nodes
        size == Len(ns)
        e0 == end(At(ns, n))
        e1 == Max(e0, At(ns, left(n, k)).inside_max_end)
        real == right(n, k) < size
        ime == IF real THEN Max(e1, At(ns, right(n, k)).inside_max_end)
               ELSE Max(e1, st.ime)
    IN [nodes |-> [ns EXCEPT ![n + 1].inside_max_end = ime],
        ime |-> IF n = border[k + 1] THEN ime ELSE st.ime,
        log |-> st.log \cup {<<"read", n>>, <<"left", n, k>>, <<"read", left(n, k)>>,
                             <<"right", n, k>>, <<"assert ime != npos", ime # PosMax>>}
                       \cup (IF real THEN {<<"read", right(n, k)>>} ELSE {})]

RECURSIVE index_level(_, _, _, _, _)
index_level(st, border, n, step, k) ==
    IF n < Len(st.nodes)
    THEN index_level(index_node(st, border, n, k), border, n + step, step, k)
    ELSE st

RECURSIVE index_levels(_, _, _, _)
index_levels(st, border, k, root_level) ==
    IF k <= root_level
    THEN LET x == Pow2(k - 1)
         IN index_levels(index_level(st, border, 2 * x - 1, 4 * x, k),
                         border, k + 1, root_level)
    ELSE st

sorted_assert(ns) ==
    \A r \in 0..(Len(ns) - 2) : beg(At(ns, r)) <= beg(At(ns, r + 1))

\* iit_base(NodeArray<Node>&): the index record and the log of the construction
iit_base(nodes_) ==
    LET size == Len(nodes_)
        g == tree_geometry(0, 0, size)
        t0 == [nodes |-> nodes_, full_size |-> g[2], root_level |-> g[1],
               root |-> Pow2(g[1]) - 1]
    IN IF size = 0 THEN [t |-> t0, log |-> {}]
       ELSE LET leaf == size - (2 - (size % 2))
                border == right_border(t0, <<leaf>>)
                st0 == [nodes |-> nodes_, ime |-> At(nodes_, leaf).inside_max_end,
                        log |-> {<<"read", leaf>>,
                                 <<"assert sorted", sorted_assert(nodes_)>>}
                                \cup border_log(border)]
                st == index_levels(st0, border, 1, t0.root_level)
            IN [t |-> [t0 EXCEPT !.nodes = st.nodes], log |-> st.log]

\* ---------------------------------------------------------------- builder
\* iit_sort: the nodes in the order of operator<
RECURSIVE iit_sort(_)
iit_sort(b) ==
    IF b = EmptyBag THEN <<>>
    ELSE LET m == CHOOSE x \in BagToSet(b) :
                      \A y \in BagToSet(b) : ~NodeLess(y, x)
         IN <<m>> \o iit_sort(b (-) SetToBag({m}))

\* ------------------------------------------------------------------ iitii
\* which_domain(beg)
which_domain(t, b) ==
    IF b < t.min_beg THEN 0
    ELSE Min(t.domains - 1, (b - t.min_beg) \div t.domain_size)

\* rank_of_levelrank counting ranks from 1
rank_of_levelrank_from_one(k, ofs) == Pow2(k) * (2 * ofs + 1)

rank_of_levelrank(k, ofs) == Pow2(k) * (2 * ofs + 1) - 1

levelrank_of_rank(r) == ((r + 1) \div Pow2(level(r)) - 1) \div 2

\* outside_min_beg without the corner case of an equal beg left of the subtree
outside_min_beg_no_tie(t, subtree, k) ==
    LET size == Len(t.nodes)
        r == rightmost_leaf(subtree, k)
        lg == {<<"outside_min_beg", subtree, k>>,
               <<"rightmost_leaf", subtree, k>>, <<"prefetch", r + 1>>,
               <<"read", subtree>>, <<"leftmost_leaf", subtree, k>>}
    IN IF r < size - 1
       THEN [val |-> beg(At(t.nodes, r + 1)), log |-> lg \cup {<<"read", r + 1>>}]
       ELSE [val |-> PosMax, log |-> lg]

\* outside_min_beg(subtree, k): [val, log]
outside_min_beg(t, subtree, k) ==
    LET size == Len(t.nodes)
        r == rightmost_leaf(subtree, k)
        b == beg(At(t.nodes, subtree))
        l == leftmost_leaf(subtree, k)
        lg == {<<"outside_min_beg", subtree, k>>,
               <<"rightmost_leaf", subtree, k>>, <<"prefetch", r + 1>>,
               <<"read", subtree>>, <<"leftmost_leaf", subtree, k>>}
    IN IF l # 0 /\ beg(At(t.nodes, l - 1)) = b
       THEN [val |-> b, log |-> lg \cup {<<"read", l - 1>>}]
       ELSE LET lg1 == lg \cup (IF l # 0 THEN {<<"read", l - 1>>} ELSE {})
            IN IF r < size - 1
               THEN [val |-> beg(At(t.nodes, r + 1)), log |-> lg1 \cup {<<"read", r + 1>>}]
               ELSE [val |-> PosMax, log |-> lg1]

\* running max_end along the sorted array
RECURSIVE running_max_end(_, _)
running_max_end(ns, n) ==
    IF n = 0 THEN <<end(At(ns, 0))>>
    ELSE LET p == running_max_end(ns, n - 1)
         IN Append(p, Max(p[n], end(At(ns, n))))

\* the walk left from leq while nodes[leq].beg() == b: [leq, log]
RECURSIVE walk_leq(_, _, _, _)
walk_leq(ns, leq, b, log) ==
    LET lg == log \cup {<<"read", leq>>}
    IN IF beg(At(ns, leq)) = b /\ leq # 0 THEN walk_leq(ns, leq - 1, b, lg)
       ELSE [leq |-> leq, log |-> lg]

\* fill_outside_max_end that takes the running max_end just left of the
\* subtree, without the walk over the nodes of equal beg
fill_outside_max_end_no_walk(st, rme, n) ==
    LET ns == st.nodes
        l == leftmost_leaf2(n)
        lg == st.log \cup {<<"read", n>>, <<"level", n, level(n)>>,
                           <<"leftmost_leaf", n, level(n)>>}
    IN IF l > 0
       THEN [nodes |-> [ns EXCEPT ![n + 1].outside_max_end = rme[l]],
             log |-> lg \cup {<<"read", l - 1>>}]
       ELSE [nodes |-> ns, log |-> lg]

\* fill outside_max_end of node n; st = [nodes, log]
fill_outside_max_end(st, rme, n) ==
    LET ns == st.nodes
        node == At(ns, n)
        l == leftmost_leaf2(n)
        lg == st.log \cup {<<"read", n>>, <<"level", n, level(n)>>,
                           <<"leftmost_leaf", n, level(n)>>}
    IN IF l > 0
       THEN LET w == walk_leq(ns, l - 1, beg(node), {})
                ome == IF beg(At(ns, w.leq)) < beg(node) THEN rme[w.leq + 1]
                       ELSE PosMin
            IN [nodes |-> [ns EXCEPT ![n + 1].outside_max_end = ome],
                log |-> lg \cup w.log
                          \cup {<<"assert leq.beg <= node.beg",
                                  beg(At(ns, w.leq)) <= beg(node)>>}]
       ELSE [nodes |-> ns, log |-> lg]

RECURSIVE fill_all(_, _, _)
fill_all(st, rme, n) ==
    IF n < Len(st.nodes) THEN fill_all(fill_outside_max_end(st, rme, n), rme, n + 1)
    ELSE st

\* train(): the float regression and its cost estimate are not computed.  A
\* domain may end with level k only if the loop over TRAIN_LEVELS reaches k
\* (every earlier level is below root_level and has more than one point) and
\* the regression at k has a nonzero slope, which needs two points of level k
\* with different beg; it may always end with -1 (no prediction).
domain_points(t, d) ==
    {r \in 0..(Len(t.nodes) - 1) : which_domain(t, beg(At(t.nodes, r))) = d}

points_by_level(t, d, k) == {r \in domain_points(t, d) : level(r) = k}

level_tried(t, d, i) ==
    \A j \in 1..i : /\ TRAIN_LEVELS[j] < t.root_level
                    /\ Cardinality(points_by_level(t, d, TRAIN_LEVELS[j])) > 1

train_levels(t, d) ==
    {-1} \cup {TRAIN_LEVELS[i] : i \in
        {i \in 1..Len(TRAIN_LEVELS) :
            /\ level_tried(t, d, i)
            /\ \E p, q \in points_by_level(t, d, TRAIN_LEVELS[i]) :
                  beg(At(t.nodes, p)) # beg(At(t.nodes, q))}}

\* the parameter tables train() can leave: parameters[d+1] is the level l[d]
train(t) ==
    {p \in [1..t.domains -> {-1} \cup 0..t.root_level] :
        \A d \in 0..(t.domains - 1) : p[d + 1] \in train_levels(t, d)}

\* iitii(NodeArray<Node>&, Domain) up to the call of train()
iitii_ctor(nodes_, domains_) ==
    LET base == iit_base(nodes_)
        size == Len(nodes_)
        ns == base.t.nodes
        doms == Max(1, domains_)
        t0 == [nodes |-> ns, full_size |-> base.t.full_size,
               root_level |-> base.t.root_level, root |-> base.t.root,
               domains |-> doms, min_beg |-> PosMax, domain_size |-> PosMax]
    IN IF size = 0 THEN [t |-> t0, log |-> base.log]
       ELSE LET mb == beg(At(ns, 0))
                st == fill_all([nodes |-> ns,
                                log |-> base.log \cup {<<"read", 0>>, <<"read", size - 1>>}],
                               running_max_end(ns, size - 1), 0)
            IN [t |-> [t0 EXCEPT !.nodes = st.nodes, !.min_beg = mb,
                                 !.domain_size = 1 + (beg(At(ns, size - 1)) - mb) \div doms],
                log |-> st.log]

\* interpolate that starts an off-scale query from the rightmost leaf of the
\* full tree, real or not
interpolate_full_tree(t, k, ofs) ==
    LET r == rank_of_levelrank(k, ofs)
    IN IF r < Len(t.nodes) THEN r ELSE t.full_size - 1

\* interpolate(k, w0, w1, qbeg), given the level-rank ofs the weights yield
interpolate(t, k, ofs) ==
    LET r == rank_of_levelrank(k, ofs)
        nsz == Len(t.nodes)
    IN IF r < nsz THEN r ELSE nsz - (2 - (nsz % 2))

\* predict(qbeg), given the level-rank ofs the weights yield for qbeg
predict(t, qbeg, ofs) ==
    LET lv == t.parameters[which_domain(t, qbeg) + 1]
    IN IF lv < 0 THEN nrank ELSE interpolate(t, lv, ofs)

\* climb_cond that does not climb through an imaginary node unread
climb_cond_reads_imaginary(t, subtree, k, qbeg, qend) ==
    IF subtree = t.root THEN [val |-> FALSE, log |-> {}]
    ELSE IF qbeg < At(t.nodes, subtree).outside_max_end
         THEN [val |-> TRUE, log |-> {<<"read", subtree>>}]
    ELSE LET o == outside_min_beg(t, subtree, k)
         IN [val |-> o.val < qend, log |-> o.log \cup {<<"read", subtree>>}]

\* climb_cond without the test of outside_max_end
climb_cond_no_left(t, subtree, k, qbeg, qend) ==
    IF subtree = t.root THEN [val |-> FALSE, log |-> {}]
    ELSE IF subtree >= Len(t.nodes) THEN [val |-> TRUE, log |-> {}]
    ELSE LET o == outside_min_beg(t, subtree, k)
         IN [val |-> o.val < qend, log |-> o.log \cup {<<"read", subtree>>}]

\* the condition of the climb loop, evaluated left to right: [val, log]
climb_cond(t, subtree, k, qbeg, qend) ==
    IF subtree = t.root THEN [val |-> FALSE, log |-> {}]
    ELSE IF subtree >= Len(t.nodes) THEN [val |-> TRUE, log |-> {}]
    ELSE IF qbeg < At(t.nodes, subtree).outside_max_end
         THEN [val |-> TRUE, log |-> {<<"read", subtree>>}]
    ELSE LET o == outside_min_beg(t, subtree, k)
         IN [val |-> o.val < qend, log |-> o.log \cup {<<"read", subtree>>}]

\* the climb loop: [subtree, k, log, path]; path holds the values <<subtree, k>>
\* the loop variables take, from the prediction to the subtree it stops at
RECURSIVE climb(_, _, _, _, _, _)
climb(t, subtree, k, qbeg, qend, log) ==
    LET c == climb_cond(t, subtree, k, qbeg, qend)
    IN IF c.val
       THEN LET up == parent(t, subtree, k)
                rest == climb(t, up, k + 1, qbeg, qend,
                     log \cup c.log
                         \cup {<<"parent", subtree, k>>,
                               <<"level", up, level(up)>>,
                               <<"assert k == level(subtree)", k + 1 = level(up)>>,
                               <<"parent", up, k + 1>>,
                               <<"prefetch", parent(t, up, k + 1)>>})
            IN [rest EXCEPT !.path = << <<subtree, k>> >> \o rest.path]
       ELSE [subtree |-> subtree, k |-> k, log |-> log \cup c.log,
             path |-> << <<subtree, k>> >>]

\* clear that leaves the vector as it is
clear_nothing(v) == v

\* std::vector::clear()
clear(v) == << >>

\* iit_base::overlap(qbeg, qend, ans): [ans, cost, depth, log]
iit_base_overlap(t, qbeg, qend, ans_) ==
    scan(t, t.root, t.root_level, qbeg, qend, clear(ans_))

\* iitii::overlap(qbeg, qend, ans), given the level-rank ofs the weights yield
\* for qbeg: [ans, cost, queries, total_climb_cost, log, path, depth]
iitii_overlap(t, qbeg, qend, ans_, ofs) ==
    LET prediction == predict(t, qbeg, ofs)
    IN IF prediction = nrank
       THEN LET s == iit_base_overlap(t, qbeg, qend, ans_)
            IN [ans |-> s.ans, cost |-> s.cost, queries |-> t.queries,
                total_climb_cost |-> t.total_climb_cost, log |-> s.log,
                path |-> << >>, depth |-> s.depth]
       ELSE LET k0 == level(prediction)
                c == climb(t, prediction, k0, qbeg, qend,
                           {<<"level", prediction, k0>>,
                            <<"assert k0 <= root_level", k0 <= t.root_level>>,
                            <<"parent", prediction, k0>>,
                            <<"prefetch", parent(t, prediction, k0)>>})
                climb_cost == c.k - k0
                s == scan(t, c.subtree, c.k, qbeg, qend, clear(ans_))
            IN [ans |-> s.ans, cost |-> s.cost + 3 * climb_cost,
                queries |-> t.queries + 1,
                total_climb_cost |-> t.total_climb_cost + climb_cost,
                log |-> c.log \cup s.log, path |-> c.path, depth |-> s.depth]

\* ------------------------------------------------------------------ state
VARIABLES
    kind,              \* the class of the builder: "iit" or "iitii"
    nodes_,            \* iit_builder_base::nodes_, kept as a bag: build() sorts it
    built,             \* build() has returned the index
    nodes, full_size, root, root_level,          \* iit_base
    domains, min_beg, domain_size, parameters,   \* iitii
    queries, total_climb_cost,                   \* iitii counters
    ans,               \* the vector the caller passes to overlap
    cost,              \* the value the last overlap returned
    log,               \* the events of the last operation (build or overlap)
    calls,             \* the number of overlap calls made
    lastq,             \* the arguments of the last overlap call
    first,             \* the first overlap call: its arguments and result set
    asked,             \* the arguments of all overlap calls made
    prior,             \* the contents of the caller's vector before the last call
    path,              \* the climb of the last call: <<subtree, k>> at each step
    depth,             \* the recursion depth of the scan of the last call
    climbs             \* the parent steps of all climbs made

index == <<nodes, full_size, root, root_level, domains, min_beg, domain_size,
           parameters>>
vars == <<kind, nodes_, built, nodes, full_size, root, root_level, domains,
          min_beg, domain_size, parameters, queries, total_climb_cost, ans,
          cost, log, calls, lastq, first, asked, prior, path, depth, climbs>>

\* what only an overlap call records
record == <<calls, lastq, first, asked, prior, path, depth, climbs>>

\* the index object
This ==
    [nodes |-> nodes, full_size |-> full_size, root |-> root,
     root_level |-> root_level, domains |-> domains, min_beg |-> min_beg,
     domain_size |-> domain_size, parameters |-> parameters,
     queries |-> queries, total_climb_cost |-> total_climb_cost]

Range(s) == {s[i] : i \in 1..Len(s)}

Init ==
    /\ kind \in {"iit", "iitii"}
    /\ nodes_ = EmptyBag
    /\ built = FALSE
    /\ nodes = << >>
    /\ full_size = 0
    /\ root = nrank
    /\ root_level = 0
    /\ domains = 0
    /\ min_beg = PosMax
    /\ domain_size = PosMax
    /\ parameters = << >>
    /\ queries = 0
    /\ total_climb_cost = 0
    /\ ans = << >>
    /\ cost = 0
    /\ log = {}
    /\ calls = 0
    /\ lastq = << >>
    /\ first = << >>
    /\ asked = {}
    /\ prior = << >>
    /\ path = << >>
    /\ depth = 0
    /\ climbs = 0

\* iit_builder_base::add(const Item&)
add(it) ==
    /\ ~built
    /\ nodes_' = nodes_ (+) SetToBag({IF kind = "iit" THEN iit_node_base(it)
                                      ELSE iitii_node(it)})
    /\ UNCHANGED <<kind, built, index, queries, total_climb_cost, ans, cost,
                   log, record>>

\* iit::builder::build()
build_iit ==
    /\ ~built
    /\ kind = "iit"
    /\ \E b \in {iit_base(iit_sort(nodes_))} :
          /\ nodes' = b.t.nodes
          /\ full_size' = b.t.full_size
          /\ root' = b.t.root
          /\ root_level' = b.t.root_level
          /\ log' = b.log
    /\ built' = TRUE
    /\ nodes_' = EmptyBag
    /\ UNCHANGED <<kind, domains, min_beg, domain_size, parameters, queries,
                   total_climb_cost, ans, cost, record>>

\* iitii::builder::build(domains_)
build_iitii(domains_) ==
    /\ ~built
    /\ kind = "iitii"
    /\ \E b \in {iitii_ctor(iit_sort(nodes_), domains_)} :
          /\ nodes' = b.t.nodes
          /\ full_size' = b.t.full_size
          /\ root' = b.t.root
          /\ root_level' = b.t.root_level
          /\ domains' = b.t.domains
          /\ min_beg' = b.t.min_beg
          /\ domain_size' = b.t.domain_size
          /\ log' = b.log
          /\ IF Len(b.t.nodes) = 0
             THEN parameters' = [d \in 1..b.t.domains |-> -1]
             ELSE parameters' \in train(b.t)
    /\ built' = TRUE
    /\ nodes_' = EmptyBag
    /\ UNCHANGED <<kind, queries, total_climb_cost, ans, cost, record>>

\* the caller puts elements into the vector it will pass to its first call
caller_fills(v) ==
    /\ built
    /\ calls = 0
    /\ ans = << >>
    /\ ans' = v
    /\ UNCHANGED <<kind, nodes_, built, index, queries, total_climb_cost, cost,
                   log, record>>

\* the bookkeeping of an overlap call that left the result a, climbed along p
\* and scanned d deep
called(qbeg, qend, a, p, d) ==
    /\ calls' = calls + 1
    /\ lastq' = <<qbeg, qend>>
    /\ first' = IF calls = 0 THEN <<qbeg, qend, Range(a)>> ELSE first
    /\ asked' = asked \cup {<<qbeg, qend>>}
    /\ prior' = ans
    /\ path' = p
    /\ depth' = d
    /\ climbs' = climbs + Max(Len(p) - 1, 0)

\* iit::overlap(qbeg, qend, ans)
overlap_iit(qbeg, qend) ==
    /\ built
    /\ kind = "iit"
    /\ \E o \in {iit_base_overlap(This, qbeg, qend, ans)} :
          /\ ans' = o.ans
          /\ cost' = o.cost
          /\ log' = o.log
          /\ called(qbeg, qend, o.ans, << >>, o.depth)
    /\ UNCHANGED <<kind, nodes_, built, index, queries, total_climb_cost>>

\* iitii::overlap(qbeg, qend, ans)
overlap_iitii(qbeg, qend, ofs) ==
    /\ built
    /\ kind = "iitii"
    /\ \E o \in {iitii_overlap(This, qbeg, qend, ans, ofs)} :
          /\ ans' = o.ans
          /\ cost' = o.cost
          /\ queries' = o.queries
          /\ total_climb_cost' = o.total_climb_cost
          /\ log' = o.log
          /\ called(qbeg, qend, o.ans, o.path, o.depth)
    /\ UNCHANGED <<kind, nodes_, built, index>>

\* Spec: builders of up to MaxItems (iit) or MaxItemsII (iitii) items, and the
\* first overlap call on the index they build.
Next ==
    \/ \E it \in Item(MaxPos) :
          /\ BagCardinality(nodes_) < (IF kind = "iit" THEN MaxItems ELSE MaxItemsII)
          /\ add(it)
    \/ build_iit
    \/ \E d \in 0..MaxDomains : build_iitii(d)
    \/ \E qbeg, qend \in QPos(MaxPos) : calls = 0 /\ overlap_iit(qbeg, qend)
    \/ \E qbeg, qend \in QPos(MaxPos) : \E ofs \in LevelRanks(Len(nodes)) :
          calls = 0 /\ overlap_iitii(qbeg, qend, ofs)

Spec == Init /\ [][Next]_vars

\* SpecSeq: builders of up to SeqItems items, and sequences of up to SeqCalls
\* overlap calls on the index they build.
NextSeq ==
    \/ \E it \in Item(SeqPos) : BagCardinality(nodes_) < SeqItems /\ add(it)
    \/ build_iit
    \/ \E d \in 0..MaxDomains : build_iitii(d)
    \/ \E qbeg, qend \in QPos(SeqPos) : calls < SeqCalls /\ overlap_iit(qbeg, qend)
    \/ \E qbeg, qend \in QPos(SeqPos) : \E ofs \in LevelRanks(Len(nodes)) :
          calls < SeqCalls /\ overlap_iitii(qbeg, qend, ofs)

SpecSeq == Init /\ [][NextSeq]_vars

\* what a caller's vector may hold before a call: references to items
Junk == {<<0>>, <<1, 0>>}

\* SpecDeep: builders of up to DeepItems items of either class over few
\* positions, a vector the caller may have filled, and the first overlap call.
NextDeep ==
    \/ \E it \in Item(DeepPos) : BagCardinality(nodes_) < DeepItems /\ add(it)
    \/ build_iit
    \/ \E d \in 0..MaxDomains : build_iitii(d)
    \/ \E v \in Junk : caller_fills(v)
    \/ \E qbeg, qend \in QPos(DeepPos) : calls = 0 /\ overlap_iit(qbeg, qend)
    \/ \E qbeg, qend \in QPos(DeepPos) : \E ofs \in LevelRanks(Len(nodes)) :
          calls = 0 /\ overlap_iitii(qbeg, qend, ofs)

SpecDeep == Init /\ [][NextDeep]_vars

\* ------------------------------------------------------------------ claims
Real == 0..(Len(nodes) - 1)

\* the items that overlap [qbeg, qend), by the two tests scan makes of a node
Overlapping(qbeg, qend) ==
    {r \in Real : beg(At(nodes, r)) < qend /\ end(At(nodes, r)) > qbeg}

\* the plain iit its builder builds from the items of the index
PlainIndex ==
    LET its == {nodes[i].item : i \in 1..Len(nodes)}
        b == [n \in {iit_node_base(it) : it \in its} |->
                 Cardinality({i \in 1..Len(nodes) : nodes[i].item = n.item})]
    IN iit_base(iit_sort(b)).t

\* C1: on a plain iit of N >= 1 items, overlap(qbeg, qend) returns exactly the
\* items with beg < qend and end > qbeg.
C1_PlainOverlapExact ==
    (kind = "iit" /\ calls >= 1 /\ Len(nodes) >= 1)
        => Range(ans) = Overlapping(lastq[1], lastq[2])

\* a plain iit of 9 items (not 2^j - 1) answered with the item of rank 8, right
\* of the root, and without the item of rank 0
C1_Witness ==
    /\ kind = "iit" /\ calls = 1 /\ Len(nodes) = 9
    /\ 8 \in Range(ans) /\ 0 \notin Range(ans)

\* C2: iitii overlap returns the set plain iit overlap returns on the same
\* items, whatever node or no node the model predicts.
C2_SameAsPlain ==
    (kind = "iitii" /\ calls >= 1)
        => Range(ans) =
               Range(iit_base_overlap(PlainIndex, lastq[1], lastq[2], << >>).ans)

\* a predicted start, a climb that stopped below the root, and a result that is
\* neither empty nor the whole index
C2_Witness ==
    /\ kind = "iitii" /\ calls = 1 /\ queries = 1 /\ total_climb_cost >= 1
    /\ <<"scan", root, root_level>> \notin log
    /\ ans # << >> /\ Range(ans) # Real

\* C3 as stated: a query with qbeg >= qend returns the empty result.
C3_ReversedQueryEmpty ==
    (calls >= 1 /\ lastq[1] >= lastq[2]) => ans = << >>

\* C3 amended: a query with qbeg >= qend returns exactly the items with
\* beg < qend and end > qbeg, the items whose interval strictly contains
\* [qend, qbeg]; it is empty only when there is no such item.
C3_ReversedQueryExact ==
    (calls >= 1 /\ lastq[1] >= lastq[2])
        => Range(ans) = Overlapping(lastq[1], lastq[2])

\* a zero-width query strictly inside the interval of an item returned that item
C3_Witness ==
    /\ calls = 1 /\ lastq[1] = lastq[2]
    /\ \E r \in Range(ans) :
          beg(At(nodes, r)) < lastq[1] /\ lastq[1] < end(At(nodes, r))

\* C4: on an index built from zero items every overlap query returns the empty
\* result with cost 0 or 1 and violates no assertion of the code.
C4_EmptyIndexQuery ==
    (built /\ Len(nodes) = 0 /\ calls >= 1)
        => /\ ans = << >>
           /\ cost \in {0, 1}
           /\ \A e \in log : EventOK(This, e)

\* C5 as stated: a zero-width item [a, a) is not returned by a query with
\* qbeg < a < qend.
C5_ZeroWidthNotReturned ==
    calls >= 1
        => \A r \in Range(ans) :
              ~ /\ beg(At(nodes, r)) = end(At(nodes, r))
                /\ lastq[1] < beg(At(nodes, r))
                /\ beg(At(nodes, r)) < lastq[2]

\* C5 amended: a zero-width item [a, a) is returned by a query [qbeg, qend)
\* exactly when qbeg < a < qend.
C5_ZeroWidthReturnedIffInside ==
    calls >= 1
        => \A r \in Real :
              beg(At(nodes, r)) = end(At(nodes, r))
                  => (r \in Range(ans)
                        <=> (lastq[1] < beg(At(nodes, r))
                               /\ beg(At(nodes, r)) < lastq[2]))

\* the single-item index of a zero-width item returned it to a query around it
C5_Witness ==
    /\ calls = 1 /\ Len(nodes) = 1 /\ ans = <<0>>
    /\ beg(At(nodes, 0)) = end(At(nodes, 0))
    /\ lastq[1] < beg(At(nodes, 0)) /\ beg(At(nodes, 0)) < lastq[2]

\* C6: an overlap call changes nothing of the index but the counters queries
\* and total_climb_cost, and a call that repeats the arguments of the first
\* call returns the set the first call returned, whatever ran in between.
C6_QueriesLeaveIndex ==
    [][built =>
          /\ index' = index
          /\ (calls >= 1 /\ calls' > calls /\ lastq' = <<first[1], first[2]>>)
                => Range(ans') = first[3]]_vars

\* the third call on an iitii index repeated the first after a different
\* query, the counters having changed in between
C6_Witness ==
    /\ kind = "iitii" /\ calls = 3 /\ Cardinality(asked) = 2
    /\ lastq = <<first[1], first[2]>>
    /\ queries = 3 /\ total_climb_cost >= 1
    /\ first[3] # {} /\ Range(ans) = first[3]

\* the real nodes of the subtree of the node of rank r and level k, by the
\* child links of the implicit tree
RECURSIVE Descendants(_, _)
Descendants(r, k) ==
    IF k = 0 THEN {r}
    ELSE {r} \cup Descendants(r - Pow2(k - 1), k - 1)
             \cup Descendants(r + Pow2(k - 1), k - 1)

Subtree(r) == Descendants(r, level(r)) \cap Real

SetMax(S) == CHOOSE x \in S : \A y \in S : y <= x
SetMin(S) == CHOOSE x \in S : \A y \in S : x <= y

\* C7: after construction inside_max_end of every real node is the maximum
\* end over the node and its real descendants.
C7_InsideMaxEnd ==
    (built /\ Len(nodes) >= 1)
        => \A r \in Real :
              At(nodes, r).inside_max_end
                  = SetMax({end(At(nodes, m)) : m \in Subtree(r)})

\* a real node with an imaginary right child whose inside_max_end is reached
\* only by real nodes of its right subtree
C7_Witness ==
    /\ built
    /\ \E r \in Real :
          /\ level(r) >= 1
          /\ r + Pow2(level(r) - 1) >= Len(nodes)
          /\ \E m \in Subtree(r) :
                m > r /\ end(At(nodes, m)) = At(nodes, r).inside_max_end
          /\ \A m \in Subtree(r) :
                m <= r => end(At(nodes, m)) < At(nodes, r).inside_max_end

\* C8: after iitii construction outside_max_end of every real node r is the
\* maximum end over the real nodes outside the subtree of r with beg < beg(r),
\* and the minus-infinity sentinel when there is none.
C8_OutsideMaxEnd ==
    (built /\ kind = "iitii")
        => \A r \in Real :
              LET S == {m \in Real \ Subtree(r) :
                           beg(At(nodes, m)) < beg(At(nodes, r))}
              IN At(nodes, r).outside_max_end
                     = IF S = {} THEN PosMin
                       ELSE SetMax({end(At(nodes, m)) : m \in S})

\* a node with, left of its subtree, a node of smaller beg and a node of equal
\* beg whose end is above the outside_max_end of the node
C8_Witness ==
    /\ built /\ kind = "iitii"
    /\ \E r \in Real : \E m1, m2 \in Real \ Subtree(r) :
          /\ m1 < r /\ beg(At(nodes, m1)) = beg(At(nodes, r))
          /\ beg(At(nodes, m2)) < beg(At(nodes, r))
          /\ At(nodes, r).outside_max_end # PosMin
          /\ end(At(nodes, m1)) > At(nodes, r).outside_max_end

\* C9: outside_min_beg(r, level(r)) of every real node r is the minimum beg
\* over the real nodes outside the subtree of r with beg >= beg(r), and plus
\* infinity when there is none.
C9_OutsideMinBeg ==
    (built /\ kind = "iitii" /\ Len(nodes) >= 1)
        => \A r \in Real :
              LET S == {m \in Real \ Subtree(r) :
                           beg(At(nodes, m)) >= beg(At(nodes, r))}
              IN outside_min_beg(This, r, level(r)).val
                     = IF S = {} THEN PosMax
                       ELSE SetMin({beg(At(nodes, m)) : m \in S})

\* the climb of an overlap call computed outside_min_beg of a subtree whose
\* left neighbour shares the beg of its root and whose rightmost leaf is the
\* last real node or imaginary
C9_Witness ==
    /\ kind = "iitii" /\ calls = 1
    /\ \E e \in log :
          /\ e[1] = "outside_min_beg"
          /\ leftmost_leaf(e[2], e[3]) > 0
          /\ beg(At(nodes, leftmost_leaf(e[2], e[3]) - 1)) = beg(At(nodes, e[2]))
          /\ rightmost_leaf(e[2], e[3]) >= Len(nodes) - 1

\* C10: on an index of N >= 1 items, construction and every overlap query read
\* no node of rank >= N, pass only ranks < full_size to the geometry functions,
\* and pass with a rank only the level of that rank.
C10_RealReadsAndLevels ==
    (built /\ Len(nodes) >= 1)
        => \A e \in log :
              /\ e[1] = "read" => e[2] \in Real
              /\ Len(e) = 3 => /\ e[2] >= 0 /\ e[2] < full_size
                               /\ e[3] = level(e[2])

\* an overlap call started at a predicted real node, climbed through an
\* imaginary node, scanned the subtree it reached and returned an item
C10_Witness ==
    /\ kind = "iitii" /\ calls = 1 /\ ans # << >>
    /\ \E e \in log : e[1] = "parent" /\ e[2] >= Len(nodes)
    /\ \E e \in log : e[1] = "scan" /\ e[2] \in Real
    /\ \E e \in log : e[1] = "read"

\* the least k with 2^k >= n: ceil(log2(n)) for n >= 1
RECURSIVE CeilLog2From(_, _)
CeilLog2From(n, k) == IF Pow2(k) >= n THEN k ELSE CeilLog2From(n, k + 1)

CeilLog2(n) == CeilLog2From(n, 0)

ClimbWithinTree ==
    /\ path[1][1] \in Real
    /\ \A i \in 1..Len(path) :
          /\ path[i][1] >= 0 /\ path[i][1] < full_size
          /\ path[i][2] = level(path[i][1])
    /\ \A i \in 1..(Len(path) - 1) :
          /\ path[i][1] # root
          /\ path[i + 1][2] = path[i][2] + 1
    /\ Len(path) - 1 <= root_level - path[1][2]
    /\ depth <= path[Len(path)][2]
    /\ path[Len(path)][2] <= root_level

\* C12 as stated: the climb stays within the tree as above, and parent is
\* never applied to the root.
C12_ClimbNeverAsksParentOfRoot ==
    (kind = "iitii" /\ calls >= 1 /\ Len(nodes) >= 1 /\ path # << >>)
        => /\ ClimbWithinTree
           /\ <<"parent", root, root_level>> \notin log

\* C12 amended: the climb stays within the tree as above; parent is applied
\* to the root exactly when the climb ends at the root, for the address the
\* loop prefetches, and its value nrank is never taken as the subtree.
C12_ClimbStopsAtRoot ==
    (kind = "iitii" /\ calls >= 1 /\ Len(nodes) >= 1 /\ path # << >>)
        => /\ ClimbWithinTree
           /\ <<"parent", root, root_level>> \in log
                 <=> path[Len(path)][1] = root
           /\ <<"parent", root, root_level>> \in log
                 => <<"prefetch", nrank>> \in log
           /\ \A i \in 1..Len(path) : path[i][1] # nrank

\* a query climbed from a leaf through an imaginary node to the root of a
\* tree of root level 3, and the scan from the root recursed
C12_Witness ==
    /\ kind = "iitii" /\ calls = 1 /\ root_level = 3
    /\ Len(path) = 4 /\ path[1][2] = 0 /\ path[4][1] = root
    /\ \E i \in 2..3 : path[i][1] >= Len(nodes)
    /\ depth >= 2

\* C13: on an iitii index queries is the number of overlap calls made, those
\* that fall back to the root scan included, and total_climb_cost is the sum
\* of the levels their climbs went up.
C13_CountersCountEveryQuery ==
    (kind = "iitii" /\ built)
        => queries = calls /\ total_climb_cost = climbs

\* C14: the result of an overlap call holds each overlapping item once, in
\* ascending rank order, which is the order of (beg, end), whatever the
\* vector held before the call.
C14_ResultAscendingOnce ==
    calls >= 1
        => /\ Range(ans) = Overlapping(lastq[1], lastq[2])
           /\ \A i, j \in 1..Len(ans) :
                 i < j => /\ ans[i] < ans[j]
                          /\ ~NodeLess(At(nodes, ans[j]), At(nodes, ans[i]))

\* a call on a 9-item index with a vector that held two elements returned the
\* root of the tree between nodes of its left and of its right subtree, and
\* two equal items next to each other
C14_Witness ==
    /\ calls = 1 /\ Len(nodes) = 9 /\ prior = <<1, 0>>
    /\ \E i, j, l \in 1..Len(ans) :
          i < j /\ j < l /\ ans[i] < root /\ ans[j] = root /\ ans[l] > root
    /\ \E i \in 1..(Len(ans) - 1) :
          At(nodes, ans[i]).item = At(nodes, ans[i + 1]).item

\* C15: rank_of_levelrank(level(r), levelrank_of_rank(r)) = r for every rank
\* r < full_size, and rank_of_levelrank(k, i) is the rank (2i+1)*2^k - 1, whose
\* level is k, for every level k and level-rank i.
C15_LevelRankRoundTrip ==
    (built /\ kind = "iitii")
        => /\ \A r \in 0..(full_size - 1) :
                 rank_of_levelrank(level(r), levelrank_of_rank(r)) = r
           /\ \A k \in 0..(root_level + 1) : \A i \in 0..full_size :
                 /\ rank_of_levelrank(k, i) = (2 * i + 1) * Pow2(k) - 1
                 /\ level(rank_of_levelrank(k, i)) = k
                 /\ levelrank_of_rank(rank_of_levelrank(k, i)) = i

\* a query started at the node rank_of_levelrank gave for a level above the
\* leaves and a level-rank other than 0, in a tree of 15 slots
C15_Witness ==
    /\ kind = "iitii" /\ calls = 1 /\ full_size = 15 /\ path # << >>
    /\ path[1][2] >= 1
    /\ levelrank_of_rank(path[1][1]) >= 1
    /\ path[1][1] = rank_of_levelrank(path[1][2], levelrank_of_rank(path[1][1]))

====
